---------------------------- MODULE Spec2Model ----------------------------
(***************************************************************************)
(* MongoToSql.py: schema inference over a sample of documents, resolution  *)
(* of one SQL Server column type per field, table creation, and the        *)
(* batched load with a single retry per row.                               *)
(*                                                                         *)
(* Python values are records [k |-> kind, v |-> payload]; every payload is *)
(* a sequence of integers (code points, bytes, digits or integer limbs).   *)
(* Python integers are unbounded: an integer n is the triple <<a, b, c>>   *)
(* with n = a * 2^62 + b * 2^31 + c and 0 <= b, c < 2^31, so that the      *)
(* order of integers is the lexicographic order of triples.                *)
(***************************************************************************)
EXTENDS Integers, Sequences, FiniteSets, TLC

VARIABLES
    pc,             \* position of main()
    names,          \* COLLECTION_NAMES.split(";")
    sample_size,    \* SAMPLE_SIZE
    batch_insert,   \* BATCH_INSERT
    mongo_client,   \* "none" | "open" | "closed"
    sql_conn,       \* "none" | "open" | "closed"
    idx,            \* position of the for loop of main() in names
    docs,           \* the documents mongo_collection.find({}) yields
    stats,          \* create_table_and_insert: stats
    total,          \* create_table_and_insert: total
    ordered_fields, \* create_table_and_insert: ordered_fields / insert_cols
    schema_map,     \* create_table_and_insert: schema_map, in insertion order
    committed,      \* the sink's durable tables
    working,        \* the sink's tables as the open transaction sees them
    batch,          \* create_table_and_insert: batch
    rows,           \* create_table_and_insert: rows
    attempts,       \* number of cursor.execute(insert_stmt, ...) calls for the last document
    values,         \* the tuple of the direct attempt for the last document
    safe_vals,      \* the tuple of the retry for the last document, <<>> if none
    raised,         \* the exception that left main(), "none" if none
    loaded,         \* indexes of names whose create_table_and_insert returned
    st,             \* argument of sql_type_from_stats
    sql_type        \* result of sql_type_from_stats

vars == <<pc, names, sample_size, batch_insert, mongo_client, sql_conn, idx,
          docs, stats, total, ordered_fields, schema_map, committed, working,
          batch, rows, attempts, values, safe_vals, raised, loaded, st, sql_type>>

---------------------------------------------------------------------------
(* Bounds of the model *)

MaxDocs == 4
MaxScanDocs == 3
MaxBatch == 2
MaxSample == 1

---------------------------------------------------------------------------
(* Configuration constants *)

ReCreateIfExists == 1
DECIMAL_PRECISION == 38
DECIMAL_SCALE == 18

None == <<>>

INT32_MIN == <<-1, 2147483647, 0>>
INT32_MAX == <<0, 0, 2147483647>>
INT64_MIN == <<-2, 0, 0>>
INT64_MAX == <<1, 2147483647, 2147483647>>

IntLess(x, y) ==
    \/ x[1] < y[1]
    \/ x[1] = y[1] /\ x[2] < y[2]
    \/ x[1] = y[1] /\ x[2] = y[2] /\ x[3] < y[3]

IntLeq(x, y) == x = y \/ IntLess(x, y)

Max(a, b) == IF a >= b THEN a ELSE b

EmptyMap == [k \in {} |-> 0]

---------------------------------------------------------------------------
(* Python values *)

NoneV == [k |-> "None", v |-> <<>>]
BoolV(b) == [k |-> "bool", v |-> <<b>>]
IntV(n) == [k |-> "int", v |-> n]
Int64V(n) == [k |-> "Int64", v |-> n]
FloatV(n) == [k |-> "float", v |-> <<n>>]
Decimal128V(n) == [k |-> "Decimal128", v |-> <<n>>]
StrV(s) == [k |-> "str", v |-> s]
ObjectIdV(n) == [k |-> "ObjectId", v |-> <<0, 0, 0, 0, 0, 0, 0, 0, 0, 0, 0, n>>]
ListV(s) == [k |-> "list", v |-> s]
DictV(s) == [k |-> "dict", v |-> s]
BytearrayV(s) == [k |-> "bytearray", v |-> s]
\* a value of no listed class (bson Regex, Timestamp, ...): v is its str()
OtherV(s) == [k |-> "other", v |-> s]
\* a value of no listed class whose __str__ raises
UnprintableV == [k |-> "unprintable", v |-> <<>>]

---------------------------------------------------------------------------
(* analyze_collection_schema *)

NewStats ==
    [types |-> {}, count |-> 0, int_min |-> None, int_max |-> None,
     max_str_len |-> 0]

IntMinUpdate_takes_last(cur, v) == v

IntMinUpdate(cur, v) == IF cur = None \/ IntLess(v, cur) THEN v ELSE cur

IntMaxUpdate(cur, v) == IF cur = None \/ IntLess(cur, v) THEN v ELSE cur

AddType(s, tag) == [s EXCEPT !.types = @ \cup {tag}]

\* lines 62-96: one (key, value) observation
Observe(st0, value) ==
    LET s == [st0 EXCEPT !.count = @ + 1] IN
    CASE value.k = "None" -> AddType(s, "null")
      [] value.k = "bool" -> AddType(s, "bool")
      [] value.k \in {"Int64", "int"} ->
            [AddType(s, "int") EXCEPT
                !.int_min = IntMinUpdate(@, value.v),
                !.int_max = IntMaxUpdate(@, value.v)]
      [] value.k = "float" -> AddType(s, "float")
      [] value.k \in {"Decimal128", "Decimal"} -> AddType(s, "decimal")
      [] value.k = "datetime" -> AddType(s, "datetime")
      [] value.k = "str" ->
            [AddType(s, "str") EXCEPT !.max_str_len = Max(@, Len(value.v))]
      [] value.k = "ObjectId" -> AddType(s, "objectid")
      [] value.k \in {"list", "dict"} -> AddType(s, "json")
      [] value.k \in {"bytes", "bytearray", "memoryview"} -> AddType(s, "bytes")
      [] value.k = "other" ->
            [AddType(s, "str") EXCEPT !.max_str_len = Max(@, Len(value.v))]
      [] OTHER -> AddType(s, "str")

\* lines 48-96: the body of the scan loop for one document
ScanDoc(stats0, doc) ==
    [key \in DOMAIN stats0 \cup DOMAIN doc |->
        IF key \in DOMAIN doc
        THEN Observe(IF key \in DOMAIN stats0 THEN stats0[key] ELSE NewStats,
                     doc[key])
        ELSE stats0[key]]

RECURSIVE ScanLoop(_, _, _, _, _)
ScanLoop(cursor, size, i, stats0, total_docs) ==
    IF i >= Len(cursor) \/ (size > 0 /\ i >= size)
    THEN [stats |-> stats0, total |-> total_docs]
    ELSE ScanLoop(cursor, size, i + 1, ScanDoc(stats0, cursor[i + 1]),
                  total_docs + 1)

Nullable_leq(count, total_docs) == count <= total_docs

Nullable(count, total_docs) == count < total_docs

WithNullable(s, total_docs) ==
    [types |-> s.types, count |-> s.count, int_min |-> s.int_min,
     int_max |-> s.int_max, max_str_len |-> s.max_str_len,
     nullable |-> Nullable(s.count, total_docs)]

analyze_collection_schema(collection, size) ==
    LET r == ScanLoop(collection, size, 0, EmptyMap, 0) IN
    [stats |-> [key \in DOMAIN r.stats |-> WithNullable(r.stats[key], r.total)],
     total |-> r.total]

---------------------------------------------------------------------------
(* sql_type_from_stats *)

DecimalType(p, s) == "DECIMAL(" \o ToString(p) \o "," \o ToString(s) \o ")"

IntegerType_32_only(lo, hi) ==
    IF lo = None \/ hi = None THEN "BIGINT"
    ELSE IF IntLeq(INT32_MIN, lo) /\ IntLeq(lo, hi) /\ IntLeq(hi, INT32_MAX)
         THEN "INT"
    ELSE "BIGINT"

IntegerType(lo, hi) ==
    IF lo = None \/ hi = None THEN "BIGINT"
    ELSE IF IntLeq(INT32_MIN, lo) /\ IntLeq(lo, hi) /\ IntLeq(hi, INT32_MAX)
         THEN "INT"
    ELSE IF IntLeq(INT64_MIN, lo) /\ IntLeq(lo, hi) /\ IntLeq(hi, INT64_MAX)
         THEN "BIGINT"
    ELSE DecimalType(DECIMAL_PRECISION, 0)

StringType(maxlen) ==
    IF maxlen <= 1 THEN "NCHAR(1)"
    ELSE IF maxlen <= 255 THEN "NVARCHAR(255)"
    ELSE "NVARCHAR(MAX)"

sql_type_from_stats(s) ==
    LET types == s.types IN
    IF types = {"null"} THEN "NVARCHAR(MAX)"
    ELSE IF "json" \in types THEN "NVARCHAR(MAX)"
    ELSE IF types = {"bytes"} THEN "VARBINARY(MAX)"
    ELSE IF types = {"objectid"} \/ ("objectid" \in types /\ Cardinality(types) = 1)
         THEN "NVARCHAR(24)"
    ELSE IF types = {"bool"} THEN "BIT"
    ELSE IF types = {"datetime"} THEN "DATETIME2"
    ELSE IF "decimal" \in types /\ types \subseteq {"decimal", "int"}
         THEN DecimalType(DECIMAL_PRECISION, DECIMAL_SCALE)
    ELSE IF "float" \in types THEN "FLOAT"
    ELSE IF types = {"int"} \/ types = {"int", "null"}
         THEN IntegerType(s.int_min, s.int_max)
    ELSE IF types \subseteq {"str", "null"} THEN StringType(s.max_str_len)
    ELSE "NVARCHAR(MAX)"

---------------------------------------------------------------------------
(* build_create_table_statement and the statements the sink executes *)

build_create_table_statement(table_name, schema) ==
    [recreate |-> (ReCreateIfExists = 1), table |-> table_name, cols |-> schema]

\* cursor.execute(create_stmt): DROP if present then CREATE, or CREATE if absent
ExecuteCreate(db, stmt) ==
    IF stmt.recreate \/ stmt.table \notin DOMAIN db
    THEN [t \in DOMAIN db \cup {stmt.table} |->
            IF t = stmt.table THEN [cols |-> stmt.cols, rows |-> <<>>] ELSE db[t]]
    ELSE db

ColumnNames(table) == {table.cols[i].col : i \in 1..Len(table.cols)}

\* an INSERT naming a table or a column the sink does not have is an error
InsertWellFormed(db, stmt) ==
    /\ stmt.table \in DOMAIN db
    /\ \A i \in 1..Len(stmt.columns) : stmt.columns[i] \in ColumnNames(db[stmt.table])

\* cursor.execute(insert_stmt, vals) when the sink accepts the row
ExecuteInsert(db, stmt, vals) ==
    LET row == [c \in ColumnNames(db[stmt.table]) |->
                   IF \E i \in 1..Len(stmt.columns) : stmt.columns[i] = c
                   THEN vals[CHOOSE i \in 1..Len(stmt.columns) : stmt.columns[i] = c]
                   ELSE [k |-> "None", v |-> <<>>]]
    IN [db EXCEPT ![stmt.table].rows = Append(@, row)]

---------------------------------------------------------------------------
(* convert_value_for_sql *)

RECURSIVE Join(_, _)
Join(sep, items) ==
    IF items = <<>> THEN <<>>
    ELSE IF Len(items) = 1 THEN items[1]
    ELSE items[1] \o sep \o Join(sep, Tail(items))

\* json.dumps(value, default=str) of a list of digits or of a dict from
\* one-character keys to digits (v alternates key, digit)
json_dumps(value) ==
    LET v == value.v IN
    IF value.k = "list"
    THEN StrV(<<91>> \o Join(<<44, 32>>, [i \in 1..Len(v) |-> <<48 + v[i]>>]) \o <<93>>)
    ELSE StrV(<<123>>
              \o Join(<<44, 32>>,
                      [i \in 1..(Len(v) \div 2) |->
                          <<34, v[2 * i - 1], 34, 58, 32, 48 + v[2 * i]>>])
              \o <<125>>)

HexDigit(d) == IF d < 10 THEN 48 + d ELSE 87 + d

\* str(ObjectId): two hexadecimal digits per byte
ObjectIdStr(value) ==
    StrV([i \in 1..(2 * Len(value.v)) |->
             IF i % 2 = 1 THEN HexDigit(value.v[(i + 1) \div 2] \div 16)
             ELSE HexDigit(value.v[i \div 2] % 16)])

convert_value_for_sql_keeps_composites(value) ==
    CASE value.k = "ObjectId" -> ObjectIdStr(value)
      [] value.k = "Decimal128" -> [k |-> "Decimal", v |-> value.v]
      [] value.k \in {"bytearray", "memoryview"} -> [k |-> "bytes", v |-> value.v]
      [] OTHER -> value

convert_value_for_sql(value) ==
    CASE value.k = "None" -> NoneV
      [] value.k = "ObjectId" -> ObjectIdStr(value)
      [] value.k = "Decimal128" -> [k |-> "Decimal", v |-> value.v]
      [] value.k = "Decimal" -> value
      [] value.k \in {"list", "dict"} -> json_dumps(value)
      [] value.k = "bytes" -> value
      [] value.k \in {"bytearray", "memoryview"} -> [k |-> "bytes", v |-> value.v]
      [] value.k = "datetime" -> value
      [] OTHER -> value

\* doc.get(c)
Get(doc, c) == IF c \in DOMAIN doc THEN doc[c] ELSE NoneV

RowValues_all_keys(doc, insert_cols) ==
    LET keys == insert_cols
                \o SelectSeq(<<"B", "_id", "a", "b">>,
                             LAMBDA f : f \in DOMAIN doc
                                        /\ \A i \in 1..Len(insert_cols) : insert_cols[i] # f)
    IN [i \in 1..Len(keys) |-> convert_value_for_sql(Get(doc, keys[i]))]

\* lines 258-260
RowValues(doc, insert_cols) ==
    [i \in 1..Len(insert_cols) |-> convert_value_for_sql(Get(doc, insert_cols[i]))]

\* lines 265-270
SafeValues(vals) ==
    [i \in 1..Len(vals) |->
        IF vals[i].k \in {"dict", "list"} THEN json_dumps(vals[i]) ELSE vals[i]]

---------------------------------------------------------------------------
(* create_table_and_insert: schema *)

\* code-point order of the field names of the model
FieldRank == [B |-> 1, _id |-> 2, a |-> 3, b |-> 4]

RECURSIVE sorted(_)
sorted(S) ==
    IF S = {} THEN <<>>
    ELSE LET m == CHOOSE x \in S : \A y \in S : FieldRank[x] <= FieldRank[y]
         IN <<m>> \o sorted(S \ {m})

\* line 231
SyntheticId ==
    [types |-> {"objectid"}, count |-> 0, max_str_len |-> 24,
     int_min |-> None, int_max |-> None, nullable |-> TRUE]

\* lines 228-231
EnsureId(stats0) ==
    IF "_id" \notin DOMAIN stats0
    THEN [key \in DOMAIN stats0 \cup {"_id"} |->
             IF key = "_id" THEN SyntheticId ELSE stats0[key]]
    ELSE stats0

\* line 236
OrderedFields(stats0) == <<"_id">> \o sorted(DOMAIN stats0 \ {"_id"})

\* lines 234-239
SchemaMap(stats0, fields) ==
    [i \in 1..Len(fields) |->
        [col |-> fields[i], sql_type |-> sql_type_from_stats(stats0[fields[i]])]]

\* lines 249-252
InsertStmt(table_name, insert_cols) == [table |-> table_name, columns |-> insert_cols]

---------------------------------------------------------------------------
(* Inputs of the model *)

\* the pieces of COLLECTION_NAMES.split(";") the model runs with
NameLists ==
    { <<"coll_1", "", " coll_2">>, <<" ", "coll_1">> }

\* str.strip() on the pieces above
strip(s) ==
    CASE s = " coll_2" -> "coll_2"
      [] s = " " -> ""
      [] OTHER -> s

Doc1 == [_id |-> ObjectIdV(1), a |-> IntV(<<0, 0, 5>>), b |-> BytearrayV(<<7>>)]
Doc2 == [a |-> ListV(<<1, 2>>), B |-> StrV(<<120, 121>>), b |-> DictV(<<107, 1>>)]

DocUniverse == {Doc1, Doc2}

SeqsUpTo(S, n) == UNION {[1..m -> S] : m \in 0..n}

\* what a collection may hold
Streams == SeqsUpTo(DocUniverse, MaxDocs)

\* a table left by an earlier run
OldTable ==
    [cols |-> <<[col |-> "_id", sql_type |-> "NVARCHAR(24)"],
                [col |-> "old", sql_type |-> "INT"]>>,
     rows |-> <<[_id |-> ObjectIdStr(ObjectIdV(9)), old |-> IntV(<<0, 0, 1>>)]>>]

InitialSinks == {EmptyMap, [t \in {"coll_1"} |-> OldTable]}

---------------------------------------------------------------------------
(* main() and create_table_and_insert *)

Init ==
    /\ pc = "start"
    /\ names \in NameLists
    /\ sample_size \in 0..MaxSample
    /\ batch_insert \in 1..MaxBatch
    /\ mongo_client = "none"
    /\ sql_conn = "none"
    /\ idx = 1
    /\ docs = <<>>
    /\ stats = EmptyMap
    /\ total = 0
    /\ ordered_fields = <<>>
    /\ schema_map = <<>>
    /\ committed \in InitialSinks
    /\ working = committed
    /\ batch = 0
    /\ rows = 0
    /\ attempts = 0
    /\ values = <<>>
    /\ safe_vals = <<>>
    /\ raised = "none"
    /\ loaded = {}
    /\ st = SyntheticId
    /\ sql_type = ""

NoConfigChange == UNCHANGED <<names, sample_size, batch_insert, st, sql_type>>
NoLoadChange ==
    UNCHANGED <<docs, stats, total, ordered_fields, schema_map, batch, rows,
                attempts, values, safe_vals>>

\* line 284
ConnectMongoOk ==
    /\ pc = "start"
    /\ mongo_client' = "open"
    /\ pc' = "connect_sql"
    /\ NoConfigChange /\ NoLoadChange
    /\ UNCHANGED <<sql_conn, idx, committed, working, raised, loaded>>

ConnectMongoFail ==
    /\ pc = "start"
    /\ raised' = "mongo_connect"
    /\ pc' = "done"
    /\ NoConfigChange /\ NoLoadChange
    /\ UNCHANGED <<mongo_client, sql_conn, idx, committed, working, loaded>>

\* line 292
ConnectSqlOk ==
    /\ pc = "connect_sql"
    /\ sql_conn' = "open"
    /\ pc' = "loop"
    /\ NoConfigChange /\ NoLoadChange
    /\ UNCHANGED <<mongo_client, idx, committed, working, raised, loaded>>

ConnectSqlFail ==
    /\ pc = "connect_sql"
    /\ raised' = "sql_connect"
    /\ pc' = "done"
    /\ NoConfigChange /\ NoLoadChange
    /\ UNCHANGED <<mongo_client, sql_conn, idx, committed, working, loaded>>

\* lines 296-299
SkipBlank ==
    /\ pc = "loop"
    /\ idx <= Len(names)
    /\ strip(names[idx]) = ""
    /\ idx' = idx + 1
    /\ NoConfigChange /\ NoLoadChange
    /\ UNCHANGED <<pc, mongo_client, sql_conn, committed, working, raised, loaded>>

\* lines 300-302 and 226-254: scan, schema, CREATE TABLE, commit
BeginCollection ==
    /\ pc = "loop"
    /\ idx <= Len(names)
    /\ strip(names[idx]) # ""
    /\ \E stream \in Streams :
        LET r == analyze_collection_schema(stream, sample_size)
            s == EnsureId(r.stats)
            fields == OrderedFields(s)
            schema == SchemaMap(s, fields)
            create_stmt == build_create_table_statement(strip(names[idx]), schema)
        IN /\ docs' = stream
           /\ stats' = s
           /\ total' = r.total
           /\ ordered_fields' = fields
           /\ schema_map' = schema
           /\ working' = ExecuteCreate(working, create_stmt)
           /\ committed' = working'
    /\ batch' = 0
    /\ rows' = 0
    /\ attempts' = 0
    /\ values' = <<>>
    /\ safe_vals' = <<>>
    /\ pc' = "load"
    /\ NoConfigChange
    /\ UNCHANGED <<mongo_client, sql_conn, idx, raised, loaded>>

CommitDue_strict(n, size) == n > size

\* line 273
CommitDue(n, size) == n >= size

AfterInsert_autocommit(db) ==
    /\ working' = db
    /\ committed' = db
    /\ batch' = IF CommitDue(batch + 1, batch_insert) THEN 0 ELSE batch + 1

\* lines 272-276, after an insert that succeeded
AfterInsert(db) ==
    /\ working' = db
    /\ IF CommitDue(batch + 1, batch_insert)
       THEN committed' = db /\ batch' = 0
       ELSE committed' = committed /\ batch' = batch + 1

LoadCommon ==
    /\ pc = "load"
    /\ rows < Len(docs)
    /\ rows' = rows + 1
    /\ values' = RowValues(docs[rows + 1], ordered_fields)
    /\ NoConfigChange
    /\ UNCHANGED <<mongo_client, sql_conn, idx, docs, stats, total,
                   ordered_fields, schema_map, loaded>>

\* lines 256-262: the direct insert succeeds
LoadRowDirect ==
    LET stmt == InsertStmt(strip(names[idx]), ordered_fields) IN
    /\ LoadCommon
    /\ InsertWellFormed(working, stmt)
    /\ AfterInsert(ExecuteInsert(working, stmt, values'))
    /\ attempts' = 1
    /\ safe_vals' = <<>>
    /\ UNCHANGED <<pc, raised>>

\* lines 263-271: the direct insert raises, the retry succeeds
LoadRowRetry ==
    LET stmt == InsertStmt(strip(names[idx]), ordered_fields) IN
    /\ LoadCommon
    /\ safe_vals' = SafeValues(values')
    /\ InsertWellFormed(working, stmt)
    /\ AfterInsert(ExecuteInsert(working, stmt, safe_vals'))
    /\ attempts' = 2
    /\ UNCHANGED <<pc, raised>>

LoadRowFatal_skips_row ==
    /\ LoadCommon
    /\ safe_vals' = SafeValues(values')
    /\ attempts' = 2
    /\ raised' = "insert"
    /\ UNCHANGED <<pc, committed, working, batch>>

LoadRowFatal_next_collection ==
    /\ pc = "load"
    /\ rows < Len(docs)
    /\ rows' = rows + 1
    /\ values' = RowValues(docs[rows + 1], ordered_fields)
    /\ safe_vals' = SafeValues(values')
    /\ attempts' = 2
    /\ raised' = "insert"
    /\ idx' = idx + 1
    /\ pc' = "loop"
    /\ NoConfigChange
    /\ UNCHANGED <<mongo_client, sql_conn, docs, stats, total, ordered_fields,
                   schema_map, loaded, committed, working, batch>>

\* lines 263-271: the direct insert and the retry both raise
LoadRowFatal ==
    /\ LoadCommon
    /\ safe_vals' = SafeValues(values')
    /\ attempts' = 2
    /\ raised' = "insert"
    /\ pc' = "finally"
    /\ UNCHANGED <<committed, working, batch>>

\* lines 278-280 and the return to the for loop of main()
FinishLoad ==
    /\ pc = "load"
    /\ rows = Len(docs)
    /\ committed' = working
    /\ loaded' = loaded \cup {idx}
    /\ idx' = idx + 1
    /\ pc' = "loop"
    /\ NoConfigChange /\ NoLoadChange
    /\ UNCHANGED <<mongo_client, sql_conn, working, raised>>

\* line 296: the for loop is exhausted
ExitLoop ==
    /\ pc = "loop"
    /\ idx > Len(names)
    /\ pc' = "finally"
    /\ NoConfigChange /\ NoLoadChange
    /\ UNCHANGED <<mongo_client, sql_conn, idx, committed, working, raised, loaded>>

\* line 304: closing the connection rolls the open transaction back
CloseSqlOk ==
    /\ pc = "finally"
    /\ sql_conn' = "closed"
    /\ working' = committed
    /\ pc' = "close_mongo"
    /\ NoConfigChange /\ NoLoadChange
    /\ UNCHANGED <<mongo_client, idx, committed, raised, loaded>>

CloseSqlFail ==
    /\ pc = "finally"
    /\ raised' = IF raised = "none" THEN "sql_close" ELSE raised
    /\ pc' = "done"
    /\ NoConfigChange /\ NoLoadChange
    /\ UNCHANGED <<mongo_client, sql_conn, idx, committed, working, loaded>>

\* line 305
CloseMongoOk ==
    /\ pc = "close_mongo"
    /\ mongo_client' = "closed"
    /\ pc' = "done"
    /\ NoConfigChange /\ NoLoadChange
    /\ UNCHANGED <<sql_conn, idx, committed, working, raised, loaded>>

CloseMongoFail ==
    /\ pc = "close_mongo"
    /\ raised' = IF raised = "none" THEN "mongo_close" ELSE raised
    /\ pc' = "done"
    /\ NoConfigChange /\ NoLoadChange
    /\ UNCHANGED <<mongo_client, sql_conn, idx, committed, working, loaded>>

Next ==
    \/ ConnectMongoOk
    \/ ConnectMongoFail
    \/ ConnectSqlOk
    \/ ConnectSqlFail
    \/ SkipBlank
    \/ BeginCollection
    \/ LoadRowDirect
    \/ LoadRowRetry
    \/ LoadRowFatal
    \/ FinishLoad
    \/ ExitLoop
    \/ CloseSqlOk
    \/ CloseSqlFail
    \/ CloseMongoOk
    \/ CloseMongoFail

Spec == Init /\ [][Next]_vars

---------------------------------------------------------------------------
(* sql_type_from_stats on its own: every tag set, integer bounds at the    *)
(* edges of the 32-bit and 64-bit ranges, string lengths at 1 and 255      *)

Tags ==
    {"null", "bool", "int", "float", "decimal", "datetime", "str", "objectid",
     "json", "bytes"}

\* -2^63 - 1, -2^63, -2^31 - 1, -2^31, 0, 2^31 - 1, 2^31, 2^63 - 1, 2^63
IntSamples ==
    { <<-3, 2147483647, 2147483647>>, INT64_MIN,
      <<-1, 2147483646, 2147483647>>, INT32_MIN,
      <<0, 0, 0>>,
      INT32_MAX, <<0, 1, 0>>,
      INT64_MAX, <<2, 0, 0>> }

LenSamples == {0, 1, 2, 255, 256}

\* int_min and int_max are both unset, or both set with int_min <= int_max;
\* they are set only when an integer was observed
BoundsInputs(ts) ==
    {<<None, None>>}
    \cup (IF "int" \in ts
          THEN {b \in IntSamples \X IntSamples : IntLeq(b[1], b[2])}
          ELSE {})

\* max_str_len is raised only when a string was observed
LenInputs(ts) == IF "str" \in ts THEN LenSamples ELSE {0}

Idle ==
    /\ names = <<>>
    /\ mongo_client = "none"
    /\ sql_conn = "none"
    /\ idx = 1
    /\ committed = EmptyMap
    /\ working = EmptyMap
    /\ batch = 0
    /\ rows = 0
    /\ attempts = 0
    /\ values = <<>>
    /\ safe_vals = <<>>
    /\ raised = "none"
    /\ loaded = {}
    /\ batch_insert = 1

InitResolve ==
    /\ pc = "resolve"
    /\ \E ts \in (SUBSET Tags) \ {{}} :
         \E b \in BoundsInputs(ts), n \in LenInputs(ts) :
            st = [types |-> ts, count |-> 1, int_min |-> b[1], int_max |-> b[2],
                  max_str_len |-> n, nullable |-> FALSE]
    /\ sql_type = ""
    /\ sample_size = 0
    /\ docs = <<>>
    /\ stats = EmptyMap
    /\ total = 0
    /\ ordered_fields = <<>>
    /\ schema_map = <<>>
    /\ Idle

ResolveStep ==
    /\ pc = "resolve"
    /\ sql_type' = sql_type_from_stats(st)
    /\ pc' = "resolved"
    /\ NoLoadChange
    /\ UNCHANGED <<names, sample_size, batch_insert, st, mongo_client, sql_conn,
                   idx, committed, working, raised, loaded>>

NextResolve == ResolveStep

SpecResolve == InitResolve /\ [][NextResolve]_vars

---------------------------------------------------------------------------
(* analyze_collection_schema and the schema built from it, on their own    *)

ScanDocs ==
    { [_id |-> ObjectIdV(1), a |-> IntV(<<0, 0, 5>>)],
      [_id |-> ObjectIdV(2), a |-> Int64V(<<0, 1, 0>>)],
      [_id |-> ObjectIdV(3), a |-> IntV(<<-1, 2147483647, 2147483647>>)],
      [_id |-> ObjectIdV(4), a |-> StrV(<<120>>)],
      [_id |-> ObjectIdV(5), a |-> StrV(<<120, 121, 122>>), b |-> NoneV],
      [_id |-> ObjectIdV(6), b |-> OtherV(<<47, 114, 47>>)],
      [a |-> Decimal128V(1), B |-> UnprintableV],
      [_id |-> ObjectIdV(8), a |-> ListV(<<1>>), b |-> BoolV(1)],
      [_id |-> ObjectIdV(9), a |-> FloatV(1), b |-> StrV(<<120, 121>>)] }

InitScan ==
    /\ pc = "scan"
    /\ docs \in SeqsUpTo(ScanDocs, MaxScanDocs)
    /\ sample_size \in 0..MaxSample
    /\ stats = EmptyMap
    /\ total = 0
    /\ ordered_fields = <<>>
    /\ schema_map = <<>>
    /\ st = SyntheticId
    /\ sql_type = ""
    /\ Idle

\* lines 226-239
ScanStep ==
    /\ pc = "scan"
    /\ LET r == analyze_collection_schema(docs, sample_size)
           s == EnsureId(r.stats)
           fields == OrderedFields(s)
       IN /\ stats' = s
          /\ total' = r.total
          /\ ordered_fields' = fields
          /\ schema_map' = SchemaMap(s, fields)
    /\ pc' = "scanned"
    /\ NoConfigChange
    /\ UNCHANGED <<docs, batch, rows, attempts, values, safe_vals, mongo_client,
                   sql_conn, idx, committed, working, raised, loaded>>

NextScan == ScanStep

SpecScan == InitScan /\ [][NextScan]_vars

---------------------------------------------------------------------------
(* Properties *)

Range(f) == {f[i] : i \in DOMAIN f}

\* the table of the collection main() is processing
Table == strip(names[idx])

\* the row the loader submits for a document: the schema's columns only
RowOf(doc) == [c \in Range(ordered_fields) |-> convert_value_for_sql(Get(doc, c))]

AfterTry == pc \in {"finally", "close_mongo", "done"}

Later == {i \in (idx + 1)..Len(names) : strip(names[i]) # ""}

\* C1 as stated: after a fatal row failure in one collection, every collection
\* listed after it is still scanned, has its table created and is loaded.
C1_SiblingsUnaffected ==
    (pc = "done" /\ raised = "insert") => \A i \in Later : i \in loaded

\* C1, amended: a fatal row failure leaves the for loop of main(): the failing
\* collection stays the current one, every collection before it was loaded, and
\* no collection listed after it is loaded or has its table created.
C1_FailureEndsRun ==
    raised = "insert" =>
        /\ AfterTry
        /\ idx \notin loaded
        /\ \A i \in 1..(idx - 1) : strip(names[i]) # "" => i \in loaded
        /\ \A i \in Later : i \notin loaded /\ strip(names[i]) \notin DOMAIN committed

C1_Witness ==
    pc = "done" /\ raised = "insert" /\ Later # {} /\ sql_conn = "closed"

\* the last document the loader processed carries a field that is no column
UnsampledField ==
    /\ rows >= 1
    /\ \E f \in DOMAIN docs[rows] : f \notin Range(ordered_fields)

\* C2 as stated: a document with a field that no sampled document had fails to
\* load, with an error that ends the collection's migration.
C2_UnsampledFieldFails ==
    UnsampledField => raised = "insert"

\* C2, amended: the loader builds every row from the schema's columns only, so
\* the INSERT names no column the table lacks and a field outside the schema is
\* left out of the stored row; the document fails only if the sink rejects it.
C2_UnsampledFieldDropped ==
    (pc = "load" /\ rows >= 1) =>
        LET stored == working[Table].rows IN
        /\ Len(values) = Len(ordered_fields)
        /\ InsertWellFormed(working, InsertStmt(Table, ordered_fields))
        /\ Len(stored) = rows
        /\ stored[rows] = RowOf(docs[rows])
        /\ DOMAIN stored[rows] = DOMAIN stats

C2_Witness ==
    pc = "load" /\ UnsampledField /\ raised = "none" /\ Len(working[Table].rows) = rows

\* number of rows inserted for the current collection
Inserted == IF raised = "insert" THEN rows - 1 ELSE rows

\* C3: the durable rows of the collection being loaded are the rows of a prefix
\* of its documents, ending at the last commit (a multiple of the batch size);
\* nothing is durable before a commit, a fatal failure leaves the committed
\* rows in place, and closing the connection drops exactly the uncommitted ones.
C3_DurablePrefix ==
    (pc = "load" \/ raised = "insert") =>
        LET durable == committed[Table].rows IN
        /\ Len(durable) = (Inserted \div batch_insert) * batch_insert
        /\ \A j \in 1..Len(durable) : durable[j] = RowOf(docs[j])
        /\ sql_conn = "closed" => working = committed
        /\ sql_conn = "open" => Len(working[Table].rows) = Inserted

C3_Witness ==
    /\ pc = "done" /\ raised = "insert" /\ sql_conn = "closed"
    /\ Len(committed[Table].rows) = 2
    /\ Inserted = 3

\* the collection whose create_table_and_insert returned last
LastLoaded == CHOOSE i \in loaded : \A j \in loaded : j <= i

\* C4: after every iteration of the load loop the rows not yet committed number
\* batch, fewer than the batch size; once the load has returned, every document
\* of the stream is a committed row, in order.
C4_BatchCommit ==
    /\ pc = "load" =>
          /\ Len(working[Table].rows) - Len(committed[Table].rows) = batch
          /\ batch < batch_insert
          /\ Len(working[Table].rows) = rows
    /\ (pc # "load" /\ raised # "insert" /\ loaded # {}) =>
          committed[strip(names[LastLoaded])].rows
             = [j \in 1..Len(docs) |-> RowOf(docs[j])]

C4_Witness ==
    /\ pc = "loop" /\ loaded # {} /\ batch_insert = 2 /\ Len(docs) = 3
    /\ Len(committed[strip(names[LastLoaded])].rows) = 3

C5_State ==
    /\ rows >= 1 => attempts \in {1, 2}
    /\ attempts = 1 => safe_vals = <<>>
    /\ raised = "insert" => (attempts = 2 /\ AfterTry)
    /\ pc = "load" => (raised = "none" /\ Len(working[Table].rows) = rows)

\* C5: a document gets one insert attempt, or two when the first raised; after
\* a failed retry no further document is attempted, and after a successful
\* attempt the loader is back in its loop.
C5_AtMostOneRetry ==
    /\ []C5_State
    /\ [][raised = "insert" => (rows' = rows /\ attempts' = attempts)]_vars

C5_Witness ==
    pc = "done" /\ raised = "insert" /\ attempts = 2 /\ rows = 2 /\ Len(docs) = 4

\* C6: when main() has ended, a connection that was opened is closed.
C6_BothClosed ==
    pc = "done" => (mongo_client # "open" /\ sql_conn # "open")

\* C7 as stated: every field of the statistics map, the synthesized _id
\* included, is nullable iff its count is below the number of documents scanned.
C7_NullableIffMissing ==
    \A f \in DOMAIN stats : stats[f].nullable <=> (stats[f].count < total)

\* C7, amended: nullable iff count < total, except that the _id synthesized for
\* an empty sample (count = total = 0) is nullable.
C7_NullableUnlessEmpty ==
    \A f \in DOMAIN stats :
        stats[f].nullable
           <=> \/ stats[f].count < total
               \/ f = "_id" /\ stats[f].count = 0 /\ total = 0

C7_Witness ==
    /\ pc = "load" /\ total = 0 /\ DOMAIN stats = {"_id"}
    /\ stats["_id"].count = 0 /\ stats["_id"].nullable

\* the documents the scan consumed
Sample ==
    SubSeq(docs, 1,
           IF sample_size > 0 /\ sample_size < Len(docs) THEN sample_size
           ELSE Len(docs))

Ascending(fields) ==
    \A i, j \in 2..Len(fields) : i < j => FieldRank[fields[i]] < FieldRank[fields[j]]

\* C8: scanning any permutation of the sample gives the same statistics, the
\* same total and the same schema, whose columns are _id and then the other
\* fields in ascending order.
C8_OrderIndependent ==
    pc = "scanned" =>
        /\ ordered_fields[1] = "_id"
        /\ Ascending(ordered_fields)
        /\ \A p \in Permutations(1..Len(Sample)) :
              LET r == analyze_collection_schema(
                           [i \in 1..Len(Sample) |-> Sample[p[i]]], sample_size)
                  s == EnsureId(r.stats)
              IN /\ r.total = total
                 /\ s = stats
                 /\ OrderedFields(s) = ordered_fields
                 /\ SchemaMap(s, OrderedFields(s)) = schema_map

C8_Witness ==
    /\ pc = "scanned" /\ Len(Sample) = 3
    /\ Sample[1] # Sample[2] /\ Sample[2] # Sample[3]
    /\ DOMAIN stats = {"_id", "a", "b"}
    /\ stats["a"].int_min # None
    /\ stats["a"].int_min # stats["a"].int_max

InRange(n, lo, hi) == IntLeq(lo, n) /\ IntLeq(n, hi)

\* the rows of the decision table of the specification
TableRule(s, n) ==
    CASE n = 1 -> s.types = {"null"}
      [] n = 2 -> "json" \in s.types
      [] n = 3 -> s.types = {"bytes"}
      [] n = 4 -> s.types = {"objectid"}
      [] n = 5 -> s.types = {"bool"}
      [] n = 6 -> s.types = {"datetime"}
      [] n = 7 -> "decimal" \in s.types /\ s.types \subseteq {"decimal", "int"}
      [] n = 8 -> "float" \in s.types
      [] n = 9 -> s.types \in {{"int"}, {"int", "null"}}
      [] n = 10 -> s.types \subseteq {"str", "null"}
      [] OTHER -> TRUE

FirstRule(s) ==
    CHOOSE n \in 1..11 : TableRule(s, n) /\ \A m \in 1..(n - 1) : ~TableRule(s, m)

TableType(s) ==
    LET n == FirstRule(s) IN
    CASE n \in {1, 2, 11} -> "NVARCHAR(MAX)"
      [] n = 3 -> "VARBINARY(MAX)"
      [] n = 4 -> "NVARCHAR(24)"
      [] n = 5 -> "BIT"
      [] n = 6 -> "DATETIME2"
      [] n = 7 -> "DECIMAL(38,18)"
      [] n = 8 -> "FLOAT"
      [] n = 9 ->
            IF s.int_min = None \/ s.int_max = None THEN "BIGINT"
            ELSE IF InRange(s.int_min, INT32_MIN, INT32_MAX)
                    /\ InRange(s.int_max, INT32_MIN, INT32_MAX) THEN "INT"
            ELSE IF InRange(s.int_min, INT64_MIN, INT64_MAX)
                    /\ InRange(s.int_max, INT64_MIN, INT64_MAX) THEN "BIGINT"
            ELSE "DECIMAL(38,0)"
      [] n = 10 ->
            IF s.max_str_len <= 1 THEN "NCHAR(1)"
            ELSE IF s.max_str_len <= 255 THEN "NVARCHAR(255)"
            ELSE "NVARCHAR(MAX)"

\* C9: sql_type_from_stats returns the type of the first matching row of the
\* decision table, with the integer and text sizing of rows 9 and 10.
C9_DecisionTable ==
    pc = "resolved" => sql_type = TableType(st)

C9_Witness ==
    /\ pc = "resolved" /\ st.types = {"int", "null"}
    /\ st.int_min = INT64_MIN /\ st.int_max = <<2, 0, 0>>
    /\ sql_type = "DECIMAL(38,0)"

\* C10: the tuple of the retry equals the tuple of the failed direct attempt,
\* and no converted value is a list or a dict.
C10_RetrySameTuple ==
    /\ \A i \in 1..Len(values) : values[i].k \notin {"list", "dict"}
    /\ attempts = 2 => safe_vals = values

C10_Witness ==
    /\ attempts = 2 /\ rows >= 1
    /\ \E i \in 1..Len(ordered_fields) :
          Get(docs[rows], ordered_fields[i]).k \in {"list", "dict"}

=============================================================================
